---- MODULE Spec2Model ----
(***************************************************************************)
(* Model of the scrape function of modemmanager_exporter (handler.go):     *)
(* onScrape, its per-modem callback and dispatch switch, and the helpers   *)
(* portInfo, powerState and state.                                          *)
(*                                                                         *)
(* Each emit callback of the sink is modelled by the sequence of samples   *)
(* it has received: out[name] is what was passed to metrics[name].         *)
(* The modemmanager client (ForEachModem, GetNetworkTime, Signal) is an    *)
(* external collaborator: its outcomes are nondeterministic choices.       *)
(***************************************************************************)
EXTENDS Integers, Sequences, FiniteSets, TLC

VARIABLES modems, metrics, clock, pc, idx, now, s, rest, out,
          timeFetch, signalFetch, result

vars == <<modems, metrics, clock, pc, idx, now, s, rest, out,
          timeFetch, signalFetch, result>>

----------------------------------------------------------------------------
(* Bounds of the model.                                                    *)

MaxModems == 2

MaxPorts == 2

----------------------------------------------------------------------------
(* Metric names.                                                           *)

mmInfo == "modemmanager_info"

mmModemInfo == "modemmanager_modem_info"

mmModemNetworkPortInfo == "modemmanager_modem_network_port_info"

mmModemNetworkTimestamp == "modemmanager_network_timestamp_seconds"

mmModemPowerState == "modemmanager_modem_power_state"

mmModemState == "modemmanager_modem_state"

mmModemSignalLTERSRQ == "modemmanager_modem_signal_lte_rsrq_db"

mmModemSignalLTERSRP == "modemmanager_modem_signal_lte_rsrp_dbm"

mmModemSignalLTERSSI == "modemmanager_modem_signal_lte_rssi_dbm"

mmModemSignalLTESNR == "modemmanager_modem_signal_lte_snr_db"

\* The names NewHandler declares with ConstGauge; the sink passes one emit
\* callback per declared name.
Declared ==
    { mmInfo, mmModemInfo, mmModemNetworkPortInfo, mmModemNetworkTimestamp,
      mmModemPowerState, mmModemState, mmModemSignalLTERSRQ,
      mmModemSignalLTERSRP, mmModemSignalLTERSSI, mmModemSignalLTESNR }

\* A name the dispatch switch has no case for.
UnhandledName == "modemmanager_unhandled"

\* The timeout of the scrape context, in seconds.
Timeout == 5

----------------------------------------------------------------------------
(* Values of the modemmanager types the handler reads.                     *)

PowerStateUnknown == "PowerStateUnknown"

PowerStateOff == "PowerStateOff"

PowerStateLow == "PowerStateLow"

PowerStateOn == "PowerStateOn"

\* A value of the integer type PowerState that powerState's table lacks.
PowerStateOther == "PowerState(other)"

PowerStateValues ==
    { PowerStateUnknown, PowerStateOff, PowerStateLow, PowerStateOn,
      PowerStateOther }

StateFailed == "StateFailed"

StateUnknown == "StateUnknown"

StateLocked == "StateLocked"

StateDisabled == "StateDisabled"

StateDisabling == "StateDisabling"

StateEnabling == "StateEnabling"

StateEnabled == "StateEnabled"

StateSearching == "StateSearching"

StateRegistered == "StateRegistered"

StateDisconnecting == "StateDisconnecting"

StateConnecting == "StateConnecting"

StateConnected == "StateConnected"

\* A value of the integer type State that state's table lacks.
StateOther == "State(other)"

StateValues ==
    { StateFailed, StateUnknown, StateLocked, StateDisabled, StateDisabling,
      StateEnabling, StateEnabled, StateSearching, StateRegistered,
      StateDisconnecting, StateConnecting, StateConnected, StateOther }

PortTypeNet == "PortTypeNet"

PortTypeAT == "PortTypeAT"

PortTypeMBIM == "PortTypeMBIM"

PortTypes == { PortTypeNet, PortTypeAT, PortTypeMBIM }

PortNames == { "ttyUSB0", "wwan0" }

Ports == [Name : PortNames, Type : PortTypes]

RECURSIVE SeqsUpTo(_, _)
SeqsUpTo(S, n) ==
    IF n = 0 THEN { <<>> }
    ELSE LET shorter == SeqsUpTo(S, n - 1)
         IN  shorter \cup { Append(q, x) : q \in { r \in shorter : Len(r) = n - 1 }, x \in S }

\* The modem of TestMetrics.
ModemFoo ==
    [ DeviceIdentifier |-> "foo", EquipmentIdentifier |-> "deadbeef",
      Model |-> "Test Modem", Revision |-> "2020-07-17",
      Ports |-> << [Name |-> "ttyUSB0", Type |-> PortTypeAT],
                   [Name |-> "wwan0", Type |-> PortTypeNet] >>,
      PowerState |-> PowerStateOn, State |-> StateConnected ]

\* A modem whose power state and state are in neither table, without ports.
ModemBar ==
    [ DeviceIdentifier |-> "bar", EquipmentIdentifier |-> "cafe",
      Model |-> "Other Modem", Revision |-> "1.0",
      Ports |-> << >>,
      PowerState |-> PowerStateOther, State |-> StateOther ]

\* A modem with two network ports.
ModemBaz ==
    [ DeviceIdentifier |-> "baz", EquipmentIdentifier |-> "f00d",
      Model |-> "Third Modem", Revision |-> "2.1",
      Ports |-> << [Name |-> "wwan0", Type |-> PortTypeNet],
                   [Name |-> "wwan1", Type |-> PortTypeNet] >>,
      PowerState |-> PowerStateLow, State |-> StateFailed ]

Catalogue == { ModemFoo, ModemBar, ModemBaz }

\* Device identifiers are unique within one iteration.
ModemLists ==
    { l \in SeqsUpTo(Catalogue, MaxModems) :
        \A i, j \in 1..Len(l) : i # j => l[i] # l[j] }

\* Results of GetNetworkTime: a time.Time as seconds and nanoseconds.
Times == { [sec |-> 1600000000, nsec |-> 999999999] }

\* Results of Signal: the LTE readings.
Signals ==
    { [RSRP |-> -116, RSRQ |-> -17, RSSI |-> -81, SNR |-> 1],
      [RSRP |-> -90, RSRQ |-> -9, RSSI |-> -60, SNR |-> 12] }

NoTime == [sec |-> 0, nsec |-> 0]

NoSignal == [RSRP |-> 0, RSRQ |-> 0, RSSI |-> 0, SNR |-> 0]

\* The version string of the client.
Version == "1.12.8"

----------------------------------------------------------------------------
(* Errors.                                                                 *)

Nil == [class |-> "nil"]

\* An error of the D-Bus transport.
DBusError == [class |-> "dbus.Error", msg |-> <<"dbus call failed">>]

\* ctx.Err() after the deadline of the scrape context.
DeadlineExceeded ==
    [class |-> "context.deadlineExceededError",
     msg |-> <<"context deadline exceeded">>]

\* fmt.Errorf with %w in place of %v: the new error wraps err.
ErrorfWrapping(format, err) ==
    [class |-> "*fmt.wrapError", msg |-> <<format>> \o err.msg, err |-> err]

\* fmt.Errorf(format + ": %v", err): the text of err is formatted into a new
\* error, which does not wrap err.
Errorf(format, err) ==
    [class |-> "*fmt.errorString", msg |-> <<format>> \o err.msg]

\* &metricslite.ScrapeError{Metric: metric, Err: err}
ScrapeError(metric, err) ==
    [class |-> "*metricslite.ScrapeError", Metric |-> metric, Err |-> err]

\* errors.Is(err, target), taking ScrapeError and a %w wrapper to unwrap.
RECURSIVE Is(_, _)
Is(err, target) ==
    \/ err = target
    \/ /\ err.class = "*metricslite.ScrapeError"
       /\ Is(err.Err, target)
    \/ /\ err.class = "*fmt.wrapError"
       /\ Is(err.err, target)

----------------------------------------------------------------------------
(* Conversions and helpers.                                                *)

\* time.Time.Unix: the whole seconds since the epoch.
Unix(t) == t.sec

\* float64(int64): exact for every magnitude below 2^53.
Float64(i) == i

Sample(value, labels) == [value |-> value, labels |-> labels]

\* portInfo with the value 0 for a port of another type instead of no sample.
RECURSIVE portInfoZeroForOthers(_)
portInfoZeroForOthers(m) ==
    IF m.Ports = << >> THEN << >>
    ELSE LET p == Head(m.Ports)
             tl == portInfoZeroForOthers([m EXCEPT !.Ports = Tail(m.Ports)])
         IN  <<Sample(IF p.Type # PortTypeNet THEN 0 ELSE 1,
                      <<m.DeviceIdentifier, p.Name>>)>> \o tl

\* portInfo: one sample for each port of type PortTypeNet, in port order.
RECURSIVE portInfo(_)
portInfo(m) ==
    IF m.Ports = << >> THEN << >>
    ELSE LET p == Head(m.Ports)
             tl == portInfo([m EXCEPT !.Ports = Tail(m.Ports)])
         IN  IF p.Type # PortTypeNet
             THEN tl
             ELSE <<Sample(1, <<m.DeviceIdentifier, p.Name>>)>> \o tl

\* The table of powerState.
powerStates ==
    << [s |-> "unknown", ps |-> PowerStateUnknown],
       [s |-> "off", ps |-> PowerStateOff],
       [s |-> "low", ps |-> PowerStateLow],
       [s |-> "on", ps |-> PowerStateOn] >>

\* powerState exporting the active entry of the table only.
powerStateActiveOnly(m) ==
    LET all == [ i \in 1..Len(powerStates) |->
                   Sample(IF powerStates[i].ps = m.PowerState THEN 1 ELSE 0,
                          <<m.DeviceIdentifier, powerStates[i].s>>) ]
    IN  SelectSeq(all, LAMBDA x : x.value = 1)

\* powerState: every entry of the table, the active one with the value 1.
powerState(m) ==
    [ i \in 1..Len(powerStates) |->
        Sample(IF powerStates[i].ps = m.PowerState THEN 1 ELSE 0,
               <<m.DeviceIdentifier, powerStates[i].s>>) ]

\* The table of state.
states ==
    << [s |-> "failed", st |-> StateFailed],
       [s |-> "unknown", st |-> StateUnknown],
       [s |-> "locked", st |-> StateLocked],
       [s |-> "disabled", st |-> StateDisabled],
       [s |-> "disabling", st |-> StateDisabling],
       [s |-> "enabling", st |-> StateEnabling],
       [s |-> "enabled", st |-> StateEnabled],
       [s |-> "searching", st |-> StateSearching],
       [s |-> "registered", st |-> StateRegistered],
       [s |-> "disconnecting", st |-> StateDisconnecting],
       [s |-> "connecting", st |-> StateConnecting],
       [s |-> "connected", st |-> StateConnected] >>

\* state reporting a value that is not in the table as "unknown".
stateDefaultsToUnknown(m) ==
    LET found == \E i \in 1..Len(states) : states[i].st = m.State
    IN  [ i \in 1..Len(states) |->
            Sample(IF \/ states[i].st = m.State
                      \/ ~found /\ states[i].st = StateUnknown
                   THEN 1 ELSE 0,
                   <<m.DeviceIdentifier, states[i].s>>) ]

\* state: every entry of the table, the active one with the value 1.
state(m) ==
    [ i \in 1..Len(states) |->
        Sample(IF states[i].st = m.State THEN 1 ELSE 0,
               <<m.DeviceIdentifier, states[i].s>>) ]

\* The names the switch of the callback has a case for.
Handled ==
    { mmInfo, mmModemInfo, mmModemNetworkPortInfo, mmModemNetworkTimestamp,
      mmModemPowerState, mmModemState, mmModemSignalLTERSRP,
      mmModemSignalLTERSRQ, mmModemSignalLTERSSI, mmModemSignalLTESNR }

\* A switch without the default case: no name panics.
UnhandledSkipped(name) == FALSE

\* Whether the switch reaches its default case, which panics.
Unhandled(name) == name \notin Handled

\* Dispatch with the case of mmInfo exporting the metadata for every modem.
DispatchInfoInLoop(name, m, t, sig) ==
    LET id == m.DeviceIdentifier
    IN  CASE name = mmInfo -> <<Sample(1, <<Version>>)>>
          [] name = mmModemInfo ->
                <<Sample(1, <<id, m.Revision, m.EquipmentIdentifier, m.Model>>)>>
          [] name = mmModemNetworkPortInfo -> portInfo(m)
          [] name = mmModemNetworkTimestamp -> <<Sample(Float64(Unix(t)), <<id>>)>>
          [] name = mmModemPowerState -> powerState(m)
          [] name = mmModemState -> state(m)
          [] name = mmModemSignalLTERSRP -> <<Sample(sig.RSRP, <<id>>)>>
          [] name = mmModemSignalLTERSRQ -> <<Sample(sig.RSRQ, <<id>>)>>
          [] name = mmModemSignalLTERSSI -> <<Sample(sig.RSSI, <<id>>)>>
          [] name = mmModemSignalLTESNR -> <<Sample(sig.SNR, <<id>>)>>
          [] OTHER -> << >>

\* Dispatch with the readings of the cases of RSRP and RSRQ exchanged.
DispatchSwapped(name, m, t, sig) ==
    LET id == m.DeviceIdentifier
    IN  CASE name = mmInfo -> << >>
          [] name = mmModemInfo ->
                <<Sample(1, <<id, m.Revision, m.EquipmentIdentifier, m.Model>>)>>
          [] name = mmModemNetworkPortInfo -> portInfo(m)
          [] name = mmModemNetworkTimestamp -> <<Sample(Float64(Unix(t)), <<id>>)>>
          [] name = mmModemPowerState -> powerState(m)
          [] name = mmModemState -> state(m)
          [] name = mmModemSignalLTERSRP -> <<Sample(sig.RSRQ, <<id>>)>>
          [] name = mmModemSignalLTERSRQ -> <<Sample(sig.RSRP, <<id>>)>>
          [] name = mmModemSignalLTERSSI -> <<Sample(sig.RSSI, <<id>>)>>
          [] name = mmModemSignalLTESNR -> <<Sample(sig.SNR, <<id>>)>>
          [] OTHER -> << >>

\* The samples one case of the switch passes to the callback of name.
Dispatch(name, m, t, sig) ==
    LET id == m.DeviceIdentifier
    IN  CASE name = mmInfo -> << >>
          [] name = mmModemInfo ->
                <<Sample(1, <<id, m.Revision, m.EquipmentIdentifier, m.Model>>)>>
          [] name = mmModemNetworkPortInfo -> portInfo(m)
          [] name = mmModemNetworkTimestamp -> <<Sample(Float64(Unix(t)), <<id>>)>>
          [] name = mmModemPowerState -> powerState(m)
          [] name = mmModemState -> state(m)
          [] name = mmModemSignalLTERSRP -> <<Sample(sig.RSRP, <<id>>)>>
          [] name = mmModemSignalLTERSRQ -> <<Sample(sig.RSRQ, <<id>>)>>
          [] name = mmModemSignalLTERSSI -> <<Sample(sig.RSSI, <<id>>)>>
          [] name = mmModemSignalLTESNR -> <<Sample(sig.SNR, <<id>>)>>
          [] OTHER -> << >>

\* The message of panicf for an unhandled name.
panicf(name) == <<"modemmanager_exporter: unhandled metric", name>>

----------------------------------------------------------------------------------------------------------------------------------------
(* The scrape.                                                             *)

NoResult == [kind |-> "none", err |-> Nil, msg |-> << >>]

Init ==
    /\ modems \in ModemLists
    /\ metrics \in { Declared, Declared \cup {UnhandledName} }
    /\ clock = 0
    /\ pc = "list"
    /\ idx = 1
    /\ now = NoTime
    /\ s = NoSignal
    /\ rest = {}
    /\ out = [n \in metrics |-> << >>]
    /\ timeFetch = [i \in 1..Len(modems) |-> "none"]
    /\ signalFetch = [i \in 1..Len(modems) |-> "none"]
    /\ result = NoResult

\* ctx.Err() once the deadline of context.WithTimeout has passed; before it
\* a call of the client fails with an error of the transport.
CallError == IF clock >= Timeout THEN DeadlineExceeded ELSE DBusError

\* ReturnError with the metadata exported before the error is checked.
ReturnErrorAfterInfo(err) ==
    /\ result' = [kind |-> "error", err |-> ScrapeError(mmInfo, err), msg |-> << >>]
    /\ pc' = "done"
    /\ out' = [out EXCEPT ![mmInfo] = @ \o <<Sample(1, <<Version>>)>>]

\* The scrape function returns the error of ForEachModem in a ScrapeError,
\* without exporting anything more.
ReturnError(err) ==
    /\ result' = [kind |-> "error", err |-> ScrapeError(mmInfo, err), msg |-> << >>]
    /\ pc' = "done"
    /\ UNCHANGED out

\* The deadline of the scrape context passes while the scrape waits for a
\* call of the client, the only places where it blocks.
Tick ==
    /\ pc \in {"list", "getNetworkTime", "signal"}
    /\ clock < Timeout
    /\ clock' = Timeout
    /\ UNCHANGED <<modems, metrics, pc, idx, now, s, rest, out,
                   timeFetch, signalFetch, result>>

\* ForEachModem lists the modems of the client.
ForEachList ==
    /\ pc = "list"
    /\ clock < Timeout
    /\ pc' = "forEach"
    /\ UNCHANGED <<modems, metrics, clock, idx, now, s, rest, out,
                   timeFetch, signalFetch, result>>

\* ForEachModem fails before it has called the callback.
ForEachFail ==
    /\ pc = "list"
    /\ ReturnError(CallError)
    /\ UNCHANGED <<modems, metrics, clock, idx, now, s, rest,
                   timeFetch, signalFetch>>

\* ForEachModem calls the callback for the next modem.
ForEachNext ==
    /\ pc = "forEach"
    /\ idx <= Len(modems)
    /\ pc' = "getNetworkTime"
    /\ UNCHANGED <<modems, metrics, clock, idx, now, s, rest, out,
                   timeFetch, signalFetch, result>>

\* GetNetworkTime with a failed fetch skipping the modem instead of
\* returning the error.
GetNetworkTimeSkipsModem ==
    /\ pc = "getNetworkTime"
    /\ \/ /\ clock < Timeout
          /\ \E t \in Times : now' = t
          /\ timeFetch' = [timeFetch EXCEPT ![idx] = "ok"]
          /\ pc' = "signal"
          /\ idx' = idx
       \/ /\ timeFetch' = [timeFetch EXCEPT ![idx] = "failed"]
          /\ pc' = "forEach"
          /\ idx' = idx + 1
          /\ UNCHANGED now
    /\ UNCHANGED <<modems, metrics, clock, s, rest, signalFetch, result, out>>

\* m.GetNetworkTime(ctx) and the check of its error.
GetNetworkTime ==
    /\ pc = "getNetworkTime"
    /\ \/ /\ clock < Timeout
          /\ \E t \in Times : now' = t
          /\ timeFetch' = [timeFetch EXCEPT ![idx] = "ok"]
          /\ pc' = "signal"
          /\ UNCHANGED <<result, out>>
       \/ /\ timeFetch' = [timeFetch EXCEPT ![idx] = "failed"]
          /\ ReturnError(Errorf("failed to get network time", CallError))
          /\ UNCHANGED now
    /\ UNCHANGED <<modems, metrics, clock, idx, s, rest, signalFetch>>

\* Signal with its error dropped: the callback goes on to the range loop.
SignalErrorDropped ==
    /\ pc = "signal"
    /\ \/ /\ clock < Timeout
          /\ \E sig \in Signals : s' = sig
          /\ signalFetch' = [signalFetch EXCEPT ![idx] = "ok"]
       \/ /\ signalFetch' = [signalFetch EXCEPT ![idx] = "failed"]
          /\ UNCHANGED s
    /\ pc' = "emit"
    /\ rest' = metrics
    /\ UNCHANGED <<modems, metrics, clock, idx, now, timeFetch, result, out>>

\* m.Signal(ctx) and the check of its error.
Signal ==
    /\ pc = "signal"
    /\ \/ /\ clock < Timeout
          /\ \E sig \in Signals : s' = sig
          /\ signalFetch' = [signalFetch EXCEPT ![idx] = "ok"]
          /\ pc' = "emit"
          /\ rest' = metrics
          /\ UNCHANGED <<result, out>>
       \/ /\ signalFetch' = [signalFetch EXCEPT ![idx] = "failed"]
          /\ ReturnError(Errorf("failed to get signal strength", CallError))
          /\ UNCHANGED <<s, rest>>
    /\ UNCHANGED <<modems, metrics, clock, idx, now, timeFetch>>

\* One iteration of "for name, c := range metrics": the map yields its
\* names in any order.
Emit ==
    /\ pc = "emit"
    /\ \E name \in rest :
         /\ rest' = rest \ {name}
         /\ IF Unhandled(name)
            THEN /\ pc' = "panicked"
                 /\ result' = [kind |-> "panic", err |-> Nil, msg |-> panicf(name)]
                 /\ UNCHANGED out
            ELSE /\ out' = [out EXCEPT
                              ![name] = @ \o Dispatch(name, modems[idx], now, s)]
                 /\ UNCHANGED <<pc, result>>
    /\ UNCHANGED <<modems, metrics, clock, idx, now, s, timeFetch, signalFetch>>

\* The range loop is over: the callback returns nil.
CallbackReturn ==
    /\ pc = "emit"
    /\ rest = {}
    /\ idx' = idx + 1
    /\ pc' = "forEach"
    /\ UNCHANGED <<modems, metrics, clock, now, s, rest, out,
                   timeFetch, signalFetch, result>>

\* ForEachModem returned nil: the metadata is exported and the scrape
\* returns nil.
Finish ==
    /\ pc = "forEach"
    /\ idx > Len(modems)
    /\ out' = [out EXCEPT ![mmInfo] = @ \o <<Sample(1, <<Version>>)>>]
    /\ result' = [kind |-> "nil", err |-> Nil, msg |-> << >>]
    /\ pc' = "done"
    /\ UNCHANGED <<modems, metrics, clock, idx, now, s, rest,
                   timeFetch, signalFetch>>

Next ==
    \/ Tick
    \/ ForEachList
    \/ ForEachFail
    \/ ForEachNext
    \/ GetNetworkTime
    \/ Signal
    \/ Emit
    \/ CallbackReturn
    \/ Finish

Spec == Init /\ [][Next]_vars

----------------------------------------------------------------------------
(* The encoders on every modem: the callback of one modem, of any power    *)
(* state, state and ports, at the point of its range loop where the three  *)
(* encoded metrics are still to be dispatched.                             *)

Encoded == { mmModemNetworkPortInfo, mmModemPowerState, mmModemState }

AnyModem ==
    [ DeviceIdentifier : {"foo"}, EquipmentIdentifier : {"deadbeef"},
      Model : {"Test Modem"}, Revision : {"2020-07-17"},
      Ports : SeqsUpTo(Ports, MaxPorts),
      PowerState : PowerStateValues, State : StateValues ]

InitEnc ==
    /\ modems \in { <<m>> : m \in AnyModem }
    /\ metrics = Declared
    /\ clock = 0
    /\ pc = "emit"
    /\ idx = 1
    /\ now = [sec |-> 1, nsec |-> 0]
    /\ s = [RSRP |-> -116, RSRQ |-> -17, RSSI |-> -81, SNR |-> 1]
    /\ rest = Encoded
    /\ out = [n \in metrics |->
                IF n \in Encoded THEN << >> ELSE Dispatch(n, modems[1], now, s)]
    /\ timeFetch = <<"ok">>
    /\ signalFetch = <<"ok">>
    /\ result = NoResult

NextEnc ==
    \/ Emit
    \/ CallbackReturn
    \/ Finish

SpecEnc == InitEnc /\ [][NextEnc]_vars

----------------------------------------------------------------------------
(* Vocabulary of the properties.                                           *)

PerDevice == Declared \ {mmInfo}

Id(i) == modems[i].DeviceIdentifier

\* The samples a callback has received with the device identifier id as
\* their first label.
SamplesOf(name, id) == SelectSeq(out[name], LAMBDA x : x.labels[1] = id)

NoSamplesOf(id) == \A n \in PerDevice : SamplesOf(n, id) = << >>

FetchFailed(i) == timeFetch[i] = "failed" \/ signalFetch[i] = "failed"

FetchedBoth(i) == timeFetch[i] = "ok" /\ signalFetch[i] = "ok"

SomeFetchFailed == \E i \in 1..Len(modems) : FetchFailed(i)

\* The error ForEachModem returned, inside the ScrapeError.
Cause == result.err.Err

IterationFailed == result.kind = "error" /\ Cause \in {DBusError, DeadlineExceeded}

----------------------------------------------------------------------------
(* C1: a scrape whose device iteration returns no error exports exactly    *)
(* one modemmanager_info sample, of value 1 and labelled with the version, *)
(* after every per-device sample; the per-device loop exports none; a      *)
(* scrape that returns an error exports none; with no devices the scrape   *)
(* succeeds unless the iteration itself fails, and exports nothing else.   *)
C1_InfoState ==
    /\ result.kind = "nil" => out[mmInfo] = <<Sample(1, <<Version>>)>>
    /\ result.kind # "nil" => out[mmInfo] = << >>
    /\ pc # "done" => out[mmInfo] = << >>
    /\ Len(modems) = 0 =>
         /\ \A n \in PerDevice : out[n] = << >>
         /\ result.kind # "panic"
         /\ result.kind = "error" => IterationFailed
         /\ pc = "done" /\ result.kind # "error" => result.kind = "nil"

C1_InfoLast == out[mmInfo] # << >> => out' = out

C1_MetadataEmittedOnce == [](C1_InfoState) /\ [][C1_InfoLast]_vars

C1_Witness ==
    /\ Len(modems) = 2
    /\ result.kind = "nil"
    /\ Len(out[mmInfo]) = 1
    /\ Len(out[mmModemInfo]) = 2

----------------------------------------------------------------------------
(* C2: once the network-time fetch or the signal fetch of a device has     *)
(* failed the scrape is over: no fetch and no emit is made for any later   *)
(* device, and the scrape has returned an error whose message names the    *)
(* fetch that failed; it never returns nil.                                *)
C2_FailFast ==
    \A i \in 1..Len(modems) :
        FetchFailed(i) =>
            /\ pc = "done"
            /\ result.kind = "error"
            /\ result.err # Nil
            /\ timeFetch[i] = "failed" =>
                 Head(Cause.msg) = "failed to get network time"
            /\ signalFetch[i] = "failed" =>
                 Head(Cause.msg) = "failed to get signal strength"
            /\ \A j \in (i + 1)..Len(modems) :
                 /\ timeFetch[j] = "none"
                 /\ signalFetch[j] = "none"
                 /\ NoSamplesOf(Id(j))

C2_Witness ==
    /\ Len(modems) = 2
    /\ signalFetch[1] = "failed"
    /\ timeFetch[1] = "ok"
    /\ pc = "done"

----------------------------------------------------------------------------
(* C4: every sample carrying a device's identifier was emitted after both  *)
(* fetches of that device had succeeded; a device whose fetch failed has   *)
(* no sample at all.                                                       *)
C4_EmitAfterFetches ==
    \A i \in 1..Len(modems) :
        /\ ~NoSamplesOf(Id(i)) => FetchedBoth(i)
        /\ FetchFailed(i) => NoSamplesOf(Id(i))

C4_Witness ==
    /\ Len(modems) = 2
    /\ FetchedBoth(1)
    /\ ~NoSamplesOf(Id(1))
    /\ timeFetch[2] = "ok"
    /\ signalFetch[2] = "failed"
    /\ NoSamplesOf(Id(2))

----------------------------------------------------------------------------
(* C5: for every power state and state of a modem, powerState emits the    *)
(* four samples unknown, off, low, on and state the twelve samples failed  *)
(* to connected, in that order, once each, labelled with the device        *)
(* identifier and the member's name; the active member's sample has the    *)
(* value 1 and every other sample the value 0.                             *)
PowerStateNames == <<"unknown", "off", "low", "on">>

StateNames ==
    <<"failed", "unknown", "locked", "disabled", "disabling", "enabling",
      "enabled", "searching", "registered", "disconnecting", "connecting",
      "connected">>

PowerStateName ==
    (PowerStateUnknown :> "unknown") @@ (PowerStateOff :> "off") @@
    (PowerStateLow :> "low") @@ (PowerStateOn :> "on")

StateName ==
    (StateFailed :> "failed") @@ (StateUnknown :> "unknown") @@
    (StateLocked :> "locked") @@ (StateDisabled :> "disabled") @@
    (StateDisabling :> "disabling") @@ (StateEnabling :> "enabling") @@
    (StateEnabled :> "enabled") @@ (StateSearching :> "searching") @@
    (StateRegistered :> "registered") @@
    (StateDisconnecting :> "disconnecting") @@
    (StateConnecting :> "connecting") @@ (StateConnected :> "connected")

\* samples is the encoding of the member named active over the names.
OneHot(samples, names, id, active) ==
    /\ Len(samples) = Len(names)
    /\ \A i \in 1..Len(names) :
         /\ samples[i].labels = <<id, names[i]>>
         /\ samples[i].value = IF names[i] = active THEN 1 ELSE 0
    /\ Cardinality({ i \in 1..Len(samples) : samples[i].value = 1 }) = 1

\* samples names every member once, in order, with values 0 or 1.
Enumerates(samples, names, id) ==
    /\ Len(samples) = Len(names)
    /\ \A i \in 1..Len(names) :
         /\ samples[i].labels = <<id, names[i]>>
         /\ samples[i].value \in {0, 1}

C5_EnumEncoding ==
    /\ Len(PowerStateNames) = 4
    /\ Len(StateNames) = 12
    /\ \A i \in 1..Len(modems) :
         LET m == modems[i]
             ps == SamplesOf(mmModemPowerState, Id(i))
             st == SamplesOf(mmModemState, Id(i))
         IN  /\ ps # << >> =>
                  /\ Enumerates(ps, PowerStateNames, Id(i))
                  /\ m.PowerState \in DOMAIN PowerStateName =>
                       OneHot(ps, PowerStateNames, Id(i), PowerStateName[m.PowerState])
             /\ st # << >> =>
                  /\ Enumerates(st, StateNames, Id(i))
                  /\ m.State \in DOMAIN StateName =>
                       OneHot(st, StateNames, Id(i), StateName[m.State])
             /\ i = idx /\ pc = "emit" /\ mmModemPowerState \notin rest => ps # << >>
             /\ i = idx /\ pc = "emit" /\ mmModemState \notin rest => st # << >>

C5_Witness ==
    /\ modems[1].PowerState = PowerStateLow
    /\ modems[1].State = StateSearching
    /\ Len(out[mmModemPowerState]) = 4
    /\ Len(out[mmModemState]) = 12
    /\ out[mmModemPowerState][3].value = 1
    /\ out[mmModemState][8].value = 1

----------------------------------------------------------------------------
(* C6: portInfo emits one sample of value 1, labelled with the device      *)
(* identifier and the port name, for each port of the network-interface    *)
(* type, in port order, and nothing for a port of another type; a modem    *)
(* without such a port gets no sample.                                     *)
NetPorts(m) == SelectSeq(m.Ports, LAMBDA p : p.Type = PortTypeNet)

C6_PortFilter ==
    \A i \in 1..Len(modems) :
        LET np == NetPorts(modems[i])
            got == SamplesOf(mmModemNetworkPortInfo, Id(i))
            dispatched ==
                \/ i < idx
                \/ /\ i = idx
                   /\ pc \in {"emit", "panicked"}
                   /\ mmModemNetworkPortInfo \notin rest
        IN  /\ dispatched =>
                /\ Len(got) = Len(np)
                /\ \A k \in 1..Len(np) :
                     got[k] = Sample(1, <<Id(i), np[k].Name>>)
            /\ ~dispatched => got = << >>

C6_Witness ==
    /\ Len(modems[1].Ports) = 2
    /\ modems[1].Ports[1].Type = PortTypeAT
    /\ modems[1].Ports[2].Type = PortTypeNet
    /\ pc = "emit"
    /\ mmModemNetworkPortInfo \notin rest
    /\ Len(out[mmModemNetworkPortInfo]) = 1

----------------------------------------------------------------------------
(* The per-device samples of modem i are all there, once each.             *)
Complete(i) ==
    /\ \A n \in PerDevice \ Encoded : Len(SamplesOf(n, Id(i))) = 1
    /\ Len(SamplesOf(mmModemPowerState, Id(i))) = Len(PowerStateNames)
    /\ Len(SamplesOf(mmModemState, Id(i))) = Len(StateNames)
    /\ Len(SamplesOf(mmModemNetworkPortInfo, Id(i))) = Len(NetPorts(modems[i]))

----------------------------------------------------------------------------
(* C7: when the callback of a modem returns, whatever the order in which   *)
(* the map yielded its names, each per-device callback has received for    *)
(* that modem: one modem_info sample of value 1 labelled with identifier,  *)
(* revision, equipment identifier and model; one timestamp sample whose    *)
(* value is the whole epoch seconds of the fetched time; one sample for    *)
(* each of RSRQ, RSRP, RSSI and SNR with the modem's own reading; and the  *)
(* power-state, state and port samples.  A step emits samples for the      *)
(* modem of the running callback only, and no sample bears a foreign       *)
(* identifier.                                                             *)
C7_AtReturn ==
    /\ pc = "emit" /\ rest = {} =>
         LET m == modems[idx]
             id == Id(idx)
         IN  /\ SamplesOf(mmModemInfo, id) =
                  <<Sample(1, <<id, m.Revision, m.EquipmentIdentifier, m.Model>>)>>
             /\ SamplesOf(mmModemNetworkTimestamp, id) = <<Sample(now.sec, <<id>>)>>
             /\ SamplesOf(mmModemSignalLTERSRQ, id) = <<Sample(s.RSRQ, <<id>>)>>
             /\ SamplesOf(mmModemSignalLTERSRP, id) = <<Sample(s.RSRP, <<id>>)>>
             /\ SamplesOf(mmModemSignalLTERSSI, id) = <<Sample(s.RSSI, <<id>>)>>
             /\ SamplesOf(mmModemSignalLTESNR, id) = <<Sample(s.SNR, <<id>>)>>
             /\ Complete(idx)
    /\ \A i \in 1..Len(modems) : i < idx => Complete(i)
    /\ \A n \in PerDevice : \A k \in 1..Len(out[n]) :
         \E i \in 1..Len(modems) :
            /\ out[n][k].labels[1] = Id(i)
            /\ Len(out[n][k].labels) =
                 CASE n = mmModemInfo -> 4
                   [] n \in Encoded -> 2
                   [] OTHER -> 1

C7_OwnSamplesOnly ==
    \A i \in 1..Len(modems) :
        (i # idx \/ pc # "emit") =>
            \A n \in PerDevice : SamplesOf(n, Id(i))' = SamplesOf(n, Id(i))

C7_PerDeviceSamples == [](C7_AtReturn) /\ [][C7_OwnSamplesOnly]_vars

C7_Witness ==
    /\ pc = "emit"
    /\ rest = {}
    /\ idx = 2
    /\ now.sec = 1600000000
    /\ s.RSRP = -90
    /\ Len(out[mmModemSignalLTERSRP]) = 2
    /\ out[mmModemSignalLTERSRP][1].value = -116

----------------------------------------------------------------------------
(* C10: for a modem whose power state (or state) is in no entry of the     *)
(* table, powerState (state) still emits one sample per entry, all of      *)
(* value 0; the scrape does not fail for it: an error comes from a failed  *)
(* fetch or a failed iteration only, a panic from an unhandled name only,  *)
(* and the other metrics of that modem and of later modems are emitted.    *)
AllZero(samples) == \A k \in 1..Len(samples) : samples[k].value = 0

C10_UnknownEnumValue ==
    /\ \A i \in 1..Len(modems) :
         LET m == modems[i]
             ps == SamplesOf(mmModemPowerState, Id(i))
             st == SamplesOf(mmModemState, Id(i))
         IN  /\ m.PowerState \notin DOMAIN PowerStateName /\ ps # << >> =>
                  Enumerates(ps, PowerStateNames, Id(i)) /\ AllZero(ps)
             /\ m.State \notin DOMAIN StateName /\ st # << >> =>
                  Enumerates(st, StateNames, Id(i)) /\ AllZero(st)
             /\ i < idx => Complete(i)
             /\ result.kind = "nil" => Complete(i)
    /\ result.kind = "error" => SomeFetchFailed \/ IterationFailed
    /\ result.kind = "panic" => UnhandledName \in metrics
    /\ pc = "done" => result.kind \in {"nil", "error"}

C10_Witness ==
    /\ modems = <<ModemBar, ModemFoo>>
    /\ result.kind = "nil"
    /\ Len(out[mmModemState]) = 24
    /\ AllZero(SamplesOf(mmModemState, "bar"))
    /\ AllZero(SamplesOf(mmModemPowerState, "bar"))
    /\ Len(out[mmModemNetworkPortInfo]) = 1

----------------------------------------------------------------------------
(* C3 as stated: once a fetch of any device has failed, no callback has    *)
(* received a sample for any device and the scrape reports an error.       *)
C3_NoSamplesAtAll ==
    SomeFetchFailed =>
        /\ result.kind = "error"
        /\ \A n \in PerDevice : out[n] = << >>

(* C3 as amended: once a fetch of a device has failed, the scrape reports  *)
(* an error, no sample has been emitted for that device or a later one and *)
(* none for modemmanager_info; the samples of every earlier device have    *)
(* all been emitted and stay with the callbacks.                           *)
C3_NoSamplesFromFailureOn ==
    \A i \in 1..Len(modems) :
        FetchFailed(i) =>
            /\ result.kind = "error"
            /\ out[mmInfo] = << >>
            /\ \A j \in i..Len(modems) : NoSamplesOf(Id(j))
            /\ \A j \in 1..(i - 1) : FetchedBoth(j) /\ Complete(j)

C3_Witness ==
    /\ Len(modems) = 2
    /\ FetchedBoth(1)
    /\ Complete(1)
    /\ timeFetch[2] = "failed"
    /\ result.kind = "error"

----------------------------------------------------------------------------
(* C8 as stated: a scrape whose map holds an unhandled name never returns, *)
(* neither nil nor an error.                                               *)
C8_AlwaysPanics ==
    UnhandledName \in metrics => result.kind \notin {"nil", "error"}

(* C8 as amended: a scrape whose map holds an unhandled name panics in the *)
(* range loop of the first modem whose two fetches succeed: no callback    *)
(* ever returns, the loop never leaves the name out, and the panic names   *)
(* it.  The scrape returns normally only when no modem was dispatched: nil *)
(* with no modems, an error when the iteration or a fetch of the first     *)
(* modem failed.  Without an unhandled name there is no panic.             *)
C8_PanicsOnDispatch ==
    /\ UnhandledName \in metrics =>
         /\ idx = 1
         /\ pc = "emit" => UnhandledName \in rest
         /\ out[UnhandledName] = << >>
         /\ result.kind = "nil" => Len(modems) = 0
         /\ result.kind = "error" => IterationFailed \/ FetchFailed(1)
         /\ result.kind \in {"nil", "error"} =>
              \A i \in 1..Len(modems) : ~FetchedBoth(i)
         /\ result.kind = "panic" =>
              /\ pc = "panicked"
              /\ result.msg = <<"modemmanager_exporter: unhandled metric", UnhandledName>>
              /\ FetchedBoth(1)
    /\ result.kind = "panic" <=> pc = "panicked"
    /\ result.kind = "panic" => UnhandledName \in metrics

C8_Witness ==
    /\ UnhandledName \in metrics
    /\ result.kind = "panic"
    /\ Len(modems) = 2
    /\ Len(out[mmModemState]) = 12
    /\ out[mmModemInfo] = << >>

----------------------------------------------------------------------------
(* C9 as stated: a scrape during which the 5 second budget ran out has     *)
(* returned an error, and that error is of the timeout class, unlike the   *)
(* error of an ordinary fetch failure.                                     *)
C9_TimeoutClass ==
    /\ Timeout = 5
    /\ pc = "done" /\ clock >= Timeout =>
         /\ result.kind = "error"
         /\ Is(result.err, DeadlineExceeded)
    /\ pc = "done" /\ clock < Timeout /\ result.kind = "error" =>
         ~Is(result.err, DeadlineExceeded)

(* C9 as amended: the scrape runs under one deadline of 5 seconds; a       *)
(* device listing or a fetch attempted after it returns an error and ends  *)
(* the scrape.  Every error is a ScrapeError for modemmanager_info.  The   *)
(* error of a failed fetch, timeout or not, holds a formatted message that *)
(* names the fetch and ends with the text of the cause; it does not wrap   *)
(* the cause, so it is of the same class for a timeout and for an ordinary *)
(* failure.  Only a failed listing keeps the cause itself.                 *)
C9_ErrorShape ==
    /\ Timeout = 5
    /\ result.kind = "error" =>
         /\ pc = "done"
         /\ result.err.class = "*metricslite.ScrapeError"
         /\ result.err.Metric = mmInfo
         /\ SomeFetchFailed =>
              /\ Cause.class = "*fmt.errorString"
              /\ ~Is(result.err, DeadlineExceeded)
              /\ ~Is(result.err, DBusError)
              /\ Len(Cause.msg) = 2
              /\ Cause.msg[1] \in {"failed to get network time",
                                   "failed to get signal strength"}
              /\ Cause.msg[2] = IF clock >= Timeout
                                THEN "context deadline exceeded"
                                ELSE "dbus call failed"
         /\ ~SomeFetchFailed =>
              Cause = IF clock >= Timeout THEN DeadlineExceeded ELSE DBusError

C9_DeadlineEndsCalls ==
    (clock >= Timeout /\ pc \in {"list", "getNetworkTime", "signal"}) =>
        (pc' = "done" /\ result'.kind = "error")

C9_TimeoutFlattened == [](C9_ErrorShape) /\ [][C9_DeadlineEndsCalls]_vars

C9_Witness ==
    /\ result.kind = "error"
    /\ clock >= Timeout
    /\ Len(modems) = 2
    /\ FetchedBoth(1)
    /\ signalFetch[2] = "failed"
    /\ Cause.msg = <<"failed to get signal strength", "context deadline exceeded">>

====
